---- MODULE Spec2Model ----
(***************************************************************************)
(* Borrower share ledger of the ghost vault (borrowers.rs).                *)
(*                                                                         *)
(* The persistent store holds two maps: "borrowers" (Addr -> Borrower) and *)
(* "delegates" ((Addr, Addr) -> Uint128).  Every method of Borrower is an  *)
(* operator that takes the in-memory record `self` and the store and       *)
(* returns the result, the record and the store as the method leaves them. *)
(* An external call loads the borrower, runs one method and commits the    *)
(* store only when the method returned Ok.                                 *)
(*                                                                         *)
(* Share counts stay far below 2^128 in this model, so the panicking       *)
(* Uint128 arithmetic (add, sub) is plain integer arithmetic here.         *)
(***************************************************************************)
EXTENDS Integers, Sequences, FiniteSets, TLC

\* ---- bounds of the model ----
\* addresses that borrow, addresses that act as a delegate
MaxAddr == 2
MaxDelegate == 1
\* largest limit an administrator sets, largest share amount of one call
MaxLimit == 3
MaxShares == 2
\* cap on a stored delegate entry (direct repayments never lower an entry, so
\* without the cap delegated borrowing can raise it for ever)
MaxEntry == 2
\* external calls submitted at the same time
MaxProc == 2

\* ---- pool valuation (external collaborator, rujira_rs::SharePool) ----
PoolSize == 3
PoolShares == 2

VARIABLES storage, last, calls

vars == <<storage, last, calls>>

Addr == 1..MaxAddr
\* external calls the host has accepted
Proc == 1..MaxProc
Delegate == 1..MaxDelegate
Limits == 0..MaxLimit
Amounts == 0..MaxShares

min(a, b) == IF a <= b THEN a ELSE b

\* SharePool::ownership: the value of a share count, size * shares / total
ownership(shares) == IF PoolShares = 0 THEN 0 ELSE (PoolSize * shares) \div PoolShares

\* ---- values kept in the store ----
\* a Borrower record, and the absence of one under a key of BORROWERS
Borrower(addr, limit, shares) == [tag |-> "some", addr |-> addr, limit |-> limit, shares |-> shares]
NoBorrower == [tag |-> "absent", addr |-> 0, limit |-> 0, shares |-> 0]

\* a Uint128 under a key of DELEGATE_SHARES, and the absence of one
DelegateEntry(shares) == [tag |-> "uint", shares |-> shares]
NoEntry == [tag |-> "absent", shares |-> 0]

\* ---- results ----
Ok(v) == [tag |-> "Ok", kind |-> "", limit |-> 0, value |-> v]
Err(kind) == [tag |-> "Err", kind |-> kind, limit |-> 0, value |-> 0]
BorrowLimitReached(limit) == [tag |-> "Err", kind |-> "BorrowLimitReached", limit |-> limit, value |-> 0]
UnauthorizedBorrower == Err("UnauthorizedBorrower")

Return(res, self, st) == [res |-> res, self |-> self, storage |-> st]

\* ---- cw_storage_plus Map accessors on the two maps ----
\* BORROWERS.load
BORROWERS_load(st, addr) ==
    IF st.borrowers[addr].tag = "some" THEN [res |-> Ok(0), v |-> st.borrowers[addr]]
    ELSE [res |-> Err("NotFound"), v |-> NoBorrower]

\* DELEGATE_SHARES.load: NotFound when the key is absent, a parse error when
\* the bytes under the key are not a Uint128
DELEGATE_SHARES_load(st, k) ==
    CASE st.delegates[k].tag = "uint" -> [res |-> Ok(0), v |-> st.delegates[k].shares]
      [] st.delegates[k].tag = "absent" -> [res |-> Err("NotFound"), v |-> 0]
      [] OTHER -> [res |-> Err("ParseErr"), v |-> 0]

\* DELEGATE_SHARES.save: the value written under the delegate, whoever the borrower
DELEGATE_SHARES_save_by_delegate(st, k, v) ==
    [st EXCEPT !.delegates = [j \in DOMAIN st.delegates |->
                                 IF j[2] = k[2] THEN DelegateEntry(v) ELSE st.delegates[j]]]

DELEGATE_SHARES_save(st, k, v) == [st EXCEPT !.delegates[k] = DelegateEntry(v)]

\* ---- impl Borrower ----
load(st, addr) ==
    LET x == BORROWERS_load(st, addr) IN
    IF x.res.tag = "Ok" THEN [res |-> Ok(0), v |-> x.v]
    ELSE IF x.res.kind = "NotFound" THEN [res |-> UnauthorizedBorrower, v |-> NoBorrower]
    ELSE [res |-> x.res, v |-> NoBorrower]

save(self, st) == [st EXCEPT !.borrowers[self.addr] = self]

delegate_shares(self, st, delegate) ==
    LET x == DELEGATE_SHARES_load(st, <<self.addr, delegate>>) IN
    IF x.res.tag = "Ok" THEN x.v ELSE 0

\* borrow: the limit itself refused
borrow_at_limit_refused(self, st, shares) ==
    IF ownership(self.shares + shares) >= self.limit
    THEN Return(BorrowLimitReached(self.limit), self, st)
    ELSE LET s2 == [self EXCEPT !.shares = @ + shares] IN
         Return(Ok(0), s2, [st EXCEPT !.borrowers[s2.addr] = s2])

\* borrow: the check made on the shares already held, without the delta
borrow_checks_held(self, st, shares) ==
    IF ownership(self.shares) > self.limit
    THEN Return(BorrowLimitReached(self.limit), self, st)
    ELSE LET s2 == [self EXCEPT !.shares = @ + shares] IN
         Return(Ok(0), s2, [st EXCEPT !.borrowers[s2.addr] = s2])

\* borrow: the record saved before the check
borrow_saves_first(self, st, shares) ==
    LET s2 == [self EXCEPT !.shares = @ + shares] IN
    IF ownership(s2.shares) > self.limit
    THEN Return(BorrowLimitReached(self.limit), s2, [st EXCEPT !.borrowers[s2.addr] = s2])
    ELSE Return(Ok(0), s2, [st EXCEPT !.borrowers[s2.addr] = s2])

borrow(self, st, shares) ==
    IF ownership(self.shares + shares) > self.limit
    THEN Return(BorrowLimitReached(self.limit), self, st)
    ELSE LET s2 == [self EXCEPT !.shares = @ + shares] IN
         Return(Ok(0), s2, save(s2, st))

\* delegate_borrow: the result of borrow dropped
delegate_borrow_drops_result(self, st, delegate, shares) ==
    LET k == <<self.addr, delegate>>
        e == st.delegates[k]
        v == IF e.tag = "uint" THEN e.shares ELSE 0
        r == borrow(self, [st EXCEPT !.delegates[k] = DelegateEntry(v + shares)], shares) IN
    Return(Ok(0), r.self, r.storage)

\* delegate_borrow: the entry overwritten with the amount instead of raised by it
delegate_borrow_overwrites(self, st, delegate, shares) ==
    borrow(self, [st EXCEPT !.delegates[<<self.addr, delegate>>] = DelegateEntry(shares)], shares)

delegate_borrow(self, st, delegate, shares) ==
    LET k == <<self.addr, delegate>>
        e == st.delegates[k] IN
    IF e.tag \notin {"uint", "absent"}
    THEN Return(Err("ParseErr"), self, st)
    ELSE LET v == IF e.tag = "uint" THEN e.shares ELSE 0 IN
         borrow(self, DELEGATE_SHARES_save(st, k, v + shares), shares)

\* repay: the requested amount subtracted without the min
repay_unclamped(self, st, shares) ==
    LET s2 == [self EXCEPT !.shares = @ - shares] IN
    Return(Ok(0), s2, [st EXCEPT !.borrowers[s2.addr] = s2])

repay(self, st, shares) ==
    LET repaid == min(shares, self.shares)
        s2 == [self EXCEPT !.shares = @ - repaid] IN
    Return(Ok(shares - repaid), s2, save(s2, st))

\* delegate_repay: the entry lowered, the borrower never repaid
delegate_repay_entry_only(self, st, delegate, shares) ==
    LET k == <<self.addr, delegate>>
        e == st.delegates[k] IN
    IF e.tag # "uint" THEN Return(Err("NotFound"), self, st)
    ELSE LET repaid == min(shares, e.shares) IN
         Return(Ok(shares - repaid), self, [st EXCEPT !.delegates[k] = DelegateEntry(e.shares - repaid)])

\* delegate_repay: the requested amount, not the repaid one, repaid on the borrower
delegate_repay_requested(self, st, delegate, shares) ==
    LET k == <<self.addr, delegate>>
        e == st.delegates[k] IN
    IF e.tag # "uint" THEN Return(Err("NotFound"), self, st)
    ELSE LET repaid == min(shares, e.shares)
             r == repay(self, [st EXCEPT !.delegates[k] = DelegateEntry(e.shares - repaid)], shares) IN
         Return(Ok(shares - repaid), r.self, r.storage)

\* delegate_repay: a pair without an entry read as zero
delegate_repay_defaults_missing(self, st, delegate, shares) ==
    LET k == <<self.addr, delegate>>
        v == delegate_shares(self, st, delegate)
        repaid == min(shares, v)
        r == repay(self, [st EXCEPT !.delegates[k] = DelegateEntry(v - repaid)], repaid) IN
    Return(Ok(shares - repaid), r.self, r.storage)

delegate_repay(self, st, delegate, shares) ==
    LET k == <<self.addr, delegate>>
        x == DELEGATE_SHARES_load(st, k) IN
    IF x.res.tag = "Err" THEN Return(x.res, self, st)
    ELSE LET repaid == min(shares, x.v) IN
         IF repaid > x.v THEN Return(Err("Overflow"), self, st)
         ELSE LET r == repay(self, DELEGATE_SHARES_save(st, k, x.v - repaid), repaid) IN
              IF r.res.tag = "Err" THEN r
              ELSE Return(Ok(shares - repaid), r.self, r.storage)

\* set: a fresh record written whether or not one exists
set_resets(st, addr, limit) ==
    Return(Ok(0), Borrower(addr, limit, 0), [st EXCEPT !.borrowers[addr] = Borrower(addr, limit, 0)])

set(st, addr, limit) ==
    LET x == BORROWERS_load(st, addr)
        borrower == IF x.res.tag = "Ok" THEN x.v ELSE Borrower(addr, 0, 0)
        b2 == [borrower EXCEPT !.limit = limit] IN
    Return(Ok(0), b2, [st EXCEPT !.borrowers[addr] = b2])

\* ---- one external call ----
\* the host keeps the writes of a call only when the call returns Ok
Commit(st, r) == IF r.res.tag = "Ok" THEN r.storage ELSE st

\* a method called on the record the caller loaded for addr
OnLoaded(st, addr, r) ==
    IF load(st, addr).res.tag = "Ok" THEN r
    ELSE Return(load(st, addr).res, NoBorrower, st)

\* a call the host has not started, and no call started
IdleCall == [pc |-> "idle", op |-> "none", addr |-> 0, delegate |-> 0, shares |-> 0, self |-> NoBorrower]
NoCalls == [p \in Proc |-> IdleCall]

\* the operation of the previous call when that call succeeded with the same
\* arguments as this one
After(addr, delegate, amount) ==
    IF last.res.tag = "Ok" /\ last.addr = addr /\ last.delegate = delegate /\ last.amount = amount
    THEN last.op ELSE "none"

Call(op, addr, delegate, amount, r) ==
    /\ storage' = Commit(storage, r)
    /\ UNCHANGED calls
    /\ last' = [op |-> op, addr |-> addr, delegate |-> delegate, amount |-> amount,
                res |-> r.res, pre |-> storage, raw |-> r.storage,
                after |-> After(addr, delegate, amount)]

Init ==
    /\ storage = [borrowers |-> [a \in Addr |-> NoBorrower],
                  delegates |-> [k \in Addr \X Delegate |-> NoEntry]]
    /\ last = [op |-> "none", addr |-> 0, delegate |-> 0, amount |-> 0,
               res |-> Ok(0), pre |-> storage, raw |-> storage, after |-> "none"]
    /\ calls = NoCalls

Set ==
    \E addr \in Addr, limit \in Limits :
        Call("set", addr, 0, limit, set(storage, addr, limit))

Borrow ==
    \E addr \in Addr, shares \in Amounts :
        Call("borrow", addr, 0, shares,
             OnLoaded(storage, addr, borrow(load(storage, addr).v, storage, shares)))

Repay ==
    \E addr \in Addr, shares \in Amounts :
        Call("repay", addr, 0, shares,
             OnLoaded(storage, addr, repay(load(storage, addr).v, storage, shares)))

DelegateBorrow ==
    \E addr \in Addr, delegate \in Delegate, shares \in Amounts :
        /\ Call("delegate_borrow", addr, delegate, shares,
                OnLoaded(storage, addr,
                         delegate_borrow(load(storage, addr).v, storage, delegate, shares)))
        /\ storage'.delegates[<<addr, delegate>>].shares <= MaxEntry

DelegateRepay ==
    \E addr \in Addr, delegate \in Delegate, shares \in Amounts :
        Call("delegate_repay", addr, delegate, shares,
             OnLoaded(storage, addr,
                      delegate_repay(load(storage, addr).v, storage, delegate, shares)))

Next == Set \/ Borrow \/ Repay \/ DelegateBorrow \/ DelegateRepay

Spec == Init /\ [][Next]_vars

\* ---- the last call, as the properties read it ----
PreBorrower == last.pre.borrowers[last.addr]
PostBorrower == storage.borrowers[last.addr]
PreEntry == last.pre.delegates[<<last.addr, last.delegate>>]
PostEntry == storage.delegates[<<last.addr, last.delegate>>]
\* the call was made on a borrower that had a record
OnExisting(op) == last.op = op /\ PreBorrower.tag = "some"

\* C1: borrow(id, s) on an existing borrower succeeds if and only if
\* ownership(shares + s) <= limit; on success the persisted shares are the
\* previous shares plus exactly s and the limit is unchanged.
Thm_C1_BorrowIffWithinLimit ==
    OnExisting("borrow") =>
        /\ (last.res.tag = "Ok") <=> (ownership(PreBorrower.shares + last.amount) <= PreBorrower.limit)
        /\ last.res.tag = "Ok" =>
              /\ PostBorrower.shares = PreBorrower.shares + last.amount
              /\ PostBorrower.limit = PreBorrower.limit
              /\ PostBorrower.tag = "some"

Wit_C1_BorrowSucceeded ==
    /\ OnExisting("borrow")
    /\ last.res.tag = "Ok"
    /\ last.amount > 0
    /\ PreBorrower.shares > 0

\* C2: a delegateBorrow(b, d, s) whose projected ownership exceeds b's limit
\* fails with BorrowLimitReached and retains nothing: the (b, d) entry, b's
\* record and the rest of the store are as before the call, although the
\* method had already written the incremented entry.
Thm_C2_DelegateBorrowRollsBack ==
    (OnExisting("delegate_borrow")
        /\ ownership(PreBorrower.shares + last.amount) > PreBorrower.limit) =>
        /\ last.res.tag = "Err"
        /\ last.res.kind = "BorrowLimitReached"
        /\ PostEntry = PreEntry
        /\ PostBorrower = PreBorrower
        /\ storage = last.pre

Wit_C2_IncrementDiscarded ==
    /\ OnExisting("delegate_borrow")
    /\ last.res.kind = "BorrowLimitReached"
    /\ last.amount > 0
    /\ last.raw.delegates[<<last.addr, last.delegate>>] # PreEntry
    /\ storage = last.pre

\* C3 (as claimed): in every reachable state every (borrower, delegate) entry
\* is at most that borrower's aggregate shares.
Cex_C3_EntryAtMostShares ==
    \A a \in Addr, d \in Delegate :
        storage.delegates[<<a, d>>].shares <= storage.borrowers[a].shares

\* C4 (as claimed): in every reachable state every persisted Borrower record
\* satisfies ownership(shares) <= limit.
Cex_C4_OwnershipWithinLimit ==
    \A a \in Addr :
        storage.borrowers[a].tag = "some" =>
            ownership(storage.borrowers[a].shares) <= storage.borrowers[a].limit

\* C4 (amended): the record persisted by a successful borrow or delegateBorrow
\* satisfies ownership(shares) <= limit.
Thm_C4_BorrowLeavesWithinLimit ==
    (last.op \in {"borrow", "delegate_borrow"} /\ last.res.tag = "Ok") =>
        /\ PostBorrower.tag = "some"
        /\ ownership(PostBorrower.shares) <= PostBorrower.limit

Wit_C4_BorrowedUpToLimit ==
    /\ last.op \in {"borrow", "delegate_borrow"}
    /\ last.res.tag = "Ok"
    /\ last.amount > 0
    /\ ownership(PostBorrower.shares) = PostBorrower.limit

\* C5: a borrow(id, s) that fails on an existing borrower returns
\* BorrowLimitReached carrying the borrower's limit; the method wrote nothing
\* and the whole store is as before the call.
Thm_C5_FailedBorrowLeavesStore ==
    (OnExisting("borrow") /\ last.res.tag = "Err") =>
        /\ last.res = BorrowLimitReached(PreBorrower.limit)
        /\ last.raw = last.pre
        /\ storage = last.pre

Wit_C5_BorrowRefused ==
    /\ OnExisting("borrow")
    /\ last.res.tag = "Err"
    /\ PreBorrower.limit > 0
    /\ PreBorrower.shares > 0

\* C6: repay(id, s) sets shares to shares_before - min(s, shares_before), never
\* below zero, and returns max(0, s - shares_before).
Thm_C6_RepayClamps ==
    OnExisting("repay") =>
        /\ last.res.tag = "Ok"
        /\ PostBorrower.shares = PreBorrower.shares - min(last.amount, PreBorrower.shares)
        /\ PostBorrower.shares >= 0
        /\ last.res.value = (IF last.amount > PreBorrower.shares
                             THEN last.amount - PreBorrower.shares ELSE 0)

Wit_C6_RepaidMoreThanOwed ==
    /\ OnExisting("repay")
    /\ PreBorrower.shares > 0
    /\ last.amount > PreBorrower.shares
    /\ last.res.value > 0

\* C7: a successful delegateBorrow(b, d, s) immediately followed by
\* delegateRepay(b, d, s) returns residual 0 and restores the share count of
\* the (b, d) entry, as delegate_shares reads it, and b.shares to what they
\* were before the delegateBorrow.
Thm_C7_DelegateRoundTrip ==
    [][(/\ last.op = "delegate_borrow"
        /\ last.res.tag = "Ok"
        /\ last'.op = "delegate_repay"
        /\ last'.addr = last.addr
        /\ last'.delegate = last.delegate
        /\ last'.amount = last.amount) =>
       (/\ last'.res = Ok(0)
        /\ delegate_shares(storage'.borrowers[last.addr], storage', last.delegate)
             = delegate_shares(last.pre.borrowers[last.addr], last.pre, last.delegate)
        /\ storage'.borrowers[last.addr] = last.pre.borrowers[last.addr])]_vars

Wit_C7_RepaidWhatWasBorrowed ==
    /\ last.op = "delegate_repay"
    /\ last.after = "delegate_borrow"
    /\ last.amount > 0
    /\ last.res = Ok(0)
    /\ PostBorrower.shares > 0

\* C8: delegateBorrow(b, d, s) on an existing borrower succeeds under the
\* limit check of a direct borrow of s, and on success raises the (b, d)
\* entry (zero when absent) and b.shares by exactly s.
Thm_C8_DelegateBorrowAddsToBoth ==
    OnExisting("delegate_borrow") =>
        /\ (last.res.tag = "Ok") <=> (ownership(PreBorrower.shares + last.amount) <= PreBorrower.limit)
        /\ last.res.tag = "Ok" =>
              /\ PostEntry = DelegateEntry(delegate_shares(PreBorrower, last.pre, last.delegate) + last.amount)
              /\ PostBorrower = [PreBorrower EXCEPT !.shares = @ + last.amount]

Wit_C8_EntryRaisedAgain ==
    /\ OnExisting("delegate_borrow")
    /\ last.res.tag = "Ok"
    /\ last.amount > 0
    /\ PreEntry.tag = "uint"
    /\ PreEntry.shares > 0

\* C9: a successful delegateRepay(b, d, requested) lowers the (b, d) entry by
\* repaid = min(requested, entry before), repays repaid on the borrower
\* (shares fall by min(repaid, shares before)) and returns requested - repaid.
Thm_C9_DelegateRepayByEntry ==
    (OnExisting("delegate_repay") /\ last.res.tag = "Ok") =>
        LET repaid == min(last.amount, PreEntry.shares) IN
        /\ PreEntry.tag = "uint"
        /\ PostEntry = DelegateEntry(PreEntry.shares - repaid)
        /\ PostBorrower = [PreBorrower EXCEPT !.shares = @ - min(repaid, PreBorrower.shares)]
        /\ last.res.value = last.amount - repaid

Wit_C9_RequestedMoreThanEntry ==
    /\ OnExisting("delegate_repay")
    /\ last.res.tag = "Ok"
    /\ PreEntry.shares > 0
    /\ last.amount > PreEntry.shares
    /\ PreBorrower.shares > PreEntry.shares
    /\ last.res.value > 0

\* C10: set(id, L) creates the record (shares 0, limit L) when there is none,
\* changes only the limit of an existing record, and repeated with the same
\* arguments leaves the store as the first call left it.
Thm_C10_SetCreatesOrRelimits ==
    last.op = "set" =>
        /\ last.res.tag = "Ok"
        /\ PreBorrower.tag = "absent" => PostBorrower = Borrower(last.addr, last.amount, 0)
        /\ PreBorrower.tag = "some" => PostBorrower = [PreBorrower EXCEPT !.limit = last.amount]
        /\ last.after = "set" => storage = last.pre

Wit_C10_LimitChangedSharesKept ==
    /\ last.op = "set"
    /\ PreBorrower.tag = "some"
    /\ PreBorrower.shares > 0
    /\ PreBorrower.limit # last.amount
    /\ PostBorrower.shares = PreBorrower.shares

\* ======================================================================
\* Borrower::list
\* ======================================================================
\* identities of the store a listing runs on, and the distance between two
\* neighbouring identities of it
MaxKeys == 101
MaxGap == 3
\* page limits a caller asks for (a u8): the small ones, and the ones from
\* just below the default up to the largest asked for
MaxSmallLimit == 3
MaxPageLimit == 101
\* largest cursor a caller starts a listing from
MaxCursor == 3
\* limit.unwrap_or(100)
DefaultLimit == 100

\* Option<T>
None == <<>>
Some(x) == <<x>>
unwrap_or(o, d) == IF o = None THEN d ELSE o[1]

PageLimits ==
    {None} \cup {Some(n) : n \in (0..MaxSmallLimit) \cup ((DefaultLimit - 1)..MaxPageLimit)}
Cursors == {None} \cup {Some(k) : k \in 0..MaxCursor}

\* BORROWERS.range(storage, min, None, Order::Ascending): the records under
\* the keys from lo up, in ascending order of the key
RECURSIVE range(_, _, _)
range(st, lo, hi) ==
    IF lo > hi THEN <<>>
    ELSE IF lo = hi
         THEN IF lo \in DOMAIN st.borrowers /\ st.borrowers[lo].tag = "some"
              THEN <<st.borrowers[lo]>> ELSE <<>>
         ELSE LET mid == (lo + hi) \div 2 IN
              range(st, lo, mid) \o range(st, mid + 1, hi)

\* Iterator::take
take(seq, n) == SubSeq(seq, 1, min(n, Len(seq)))

\* list: the cursor taken as an inclusive bound
list_from_cursor(st, limit, start_after) ==
    take(range(st, IF start_after = None THEN 0 ELSE start_after[1], MaxKeys),
         unwrap_or(limit, DefaultLimit))

list(st, limit, start_after) ==
    LET n == unwrap_or(limit, DefaultLimit)
        lo == IF start_after = None THEN 0 ELSE start_after[1] + 1 IN
    take(range(st, lo, MaxKeys), n)

\* the stores a listing runs on: every m-th identity has a record
ListStore(m) ==
    [borrowers |-> [a \in 1..MaxKeys |->
                        IF m > 0 /\ a % m = 0 THEN Borrower(a, a % (MaxLimit + 1), a % (MaxShares + 1))
                        ELSE NoBorrower],
     delegates |-> [k \in Addr \X Delegate |-> NoEntry]]

Listed(limit, start_after, from, seen, page) ==
    [op |-> "list", limit |-> limit, start_after |-> start_after,
     from |-> from, seen |-> seen, page |-> page]

InitList ==
    /\ storage \in {ListStore(m) : m \in 0..MaxGap}
    /\ last = [op |-> "none", limit |-> None, start_after |-> None,
               from |-> None, seen |-> <<>>, page |-> <<>>]
    /\ calls = NoCalls

\* a listing from a cursor of the caller's choice
List ==
    \E limit \in PageLimits, start_after \in Cursors :
        LET page == list(storage, limit, start_after) IN
        /\ last' = Listed(limit, start_after, start_after, page, page)
        /\ UNCHANGED <<storage, calls>>

\* the next page of the same listing: the last identity returned is the cursor
ListNext ==
    /\ last.op = "list"
    /\ last.page # <<>>
    /\ LET start_after == Some(last.page[Len(last.page)].addr)
           page == list(storage, last.limit, start_after) IN
       last' = Listed(last.limit, start_after, last.from, last.seen \o page, page)
    /\ UNCHANGED <<storage, calls>>

NextList == List \/ ListNext

SpecList == InitList /\ [][NextList]_vars

\* the records a listing from the cursor has to return, all of them
Expected(from) == range(storage, IF from = None THEN 0 ELSE from[1] + 1, MaxKeys)

\* C11 (as claimed): a page holds at most min(requested, 100) records, and at
\* most 100 when no limit is given.
Cex_C11_PageCappedAtHundred ==
    last.op = "list" =>
        Len(last.page) <= min(unwrap_or(last.limit, DefaultLimit), DefaultLimit)

\* C12: a page is strictly ascending by identity, holds stored records whose
\* identities are strictly greater than the cursor, and the pages of a listing
\* chained by the last identity returned are, one after the other, the stored
\* records beyond the first cursor in ascending order without gap or
\* duplicate; the listing is complete when a page comes back short.
Thm_C12_PagesEnumerateInOrder ==
    last.op = "list" =>
        /\ \A i \in 1..Len(last.page) :
              /\ last.page[i] = storage.borrowers[last.page[i].addr]
              /\ last.start_after # None => last.page[i].addr > last.start_after[1]
              /\ i > 1 => last.page[i - 1].addr < last.page[i].addr
        /\ Len(last.seen) <= Len(Expected(last.from))
        /\ last.seen = SubSeq(Expected(last.from), 1, Len(last.seen))
        /\ Len(last.page) < unwrap_or(last.limit, DefaultLimit) => last.seen = Expected(last.from)

Wit_C12_ListedInThreePages ==
    /\ last.op = "list"
    /\ last.from = None
    /\ storage = ListStore(2)
    /\ Len(last.page) > 0
    /\ Len(last.page) < unwrap_or(last.limit, DefaultLimit)
    /\ Len(last.seen) > 2 * unwrap_or(last.limit, DefaultLimit)
    /\ Len(last.seen) = Cardinality({a \in 1..MaxKeys : storage.borrowers[a].tag = "some"})

\* ======================================================================
\* migrate
\* ======================================================================
\* delegates that occur in legacy records, largest share count of one
MaxLegacy == 2
MaxLegacyShares == 1

Legacy == 1..MaxLegacy

\* an OldDelegate under a key of the "delegates" map
OldDelegate(borrower, addr, shares) ==
    [tag |-> "old", borrower |-> borrower, addr |-> addr, shares |-> shares]

\* (Addr, Addr) keys in ascending order
KeyLess(j, k) == j[1] < k[1] \/ (j[1] = k[1] /\ j[2] < k[2])
Ascending(ks) ==
    [i \in 1..Cardinality(ks) |->
        CHOOSE k \in ks : Cardinality({j \in ks : KeyLess(j, k)}) = i - 1]

\* old.range(storage, None, None, Order::Ascending): the keys present
old_range(st) == Ascending({k \in DOMAIN st.delegates : st.delegates[k].tag # "absent"})

\* the first loop: every pair saved into DELEGATE_SHARES, the totals accumulated
RECURSIVE copy_delegates(_, _, _, _)
copy_delegates(st, keys, i, totals) ==
    IF i > Len(keys) THEN [storage |-> st, totals |-> totals]
    ELSE LET k == keys[i]
             shares == st.delegates[k].shares
             t2 == IF k[1] \in DOMAIN totals
                   THEN [totals EXCEPT ![k[1]] = @ + shares]
                   ELSE [b \in DOMAIN totals \cup {k[1]} |->
                            IF b = k[1] THEN shares ELSE totals[b]] IN
         copy_delegates(DELEGATE_SHARES_save(st, k, shares), keys, i + 1, t2)

\* the second loop: a Borrower built afresh for every total
RECURSIVE save_totals_on_default(_, _, _)
save_totals_on_default(st, order, totals) ==
    IF order = <<>> THEN Return(Ok(0), NoBorrower, st)
    ELSE save_totals_on_default(save(Borrower(Head(order), 0, totals[Head(order)]), st),
                                Tail(order), totals)

\* the second loop: a borrower without a record passed over
RECURSIVE save_totals_skips_missing(_, _, _)
save_totals_skips_missing(st, order, totals) ==
    IF order = <<>> THEN Return(Ok(0), NoBorrower, st)
    ELSE LET x == BORROWERS_load(st, Head(order)) IN
         IF x.res.tag = "Err" THEN save_totals_skips_missing(st, Tail(order), totals)
         ELSE save_totals_skips_missing(save([x.v EXCEPT !.shares = totals[Head(order)]], st),
                                        Tail(order), totals)

\* the second loop, over the HashMap in the order it iterates
RECURSIVE save_totals(_, _, _)
save_totals(st, order, totals) ==
    IF order = <<>> THEN Return(Ok(0), NoBorrower, st)
    ELSE LET x == BORROWERS_load(st, Head(order)) IN
         IF x.res.tag = "Err" THEN Return(x.res, NoBorrower, st)
         ELSE save_totals(save([x.v EXCEPT !.shares = totals[Head(order)]], st),
                          Tail(order), totals)

\* the borrowers the HashMap holds after the first loop
Referenced(st) == {k[1] : k \in {j \in DOMAIN st.delegates : st.delegates[j].tag = "old"}}

\* the orders a HashMap over the set may iterate in
Orders(S) ==
    {f \in [1..Cardinality(S) -> S] : \A i, j \in 1..Cardinality(S) : i # j => f[i] # f[j]}

\* migrate: only the last record of a borrower counted (or_insert alone)
migrate_last_record_counts(st, order) ==
    LET keys == old_range(st)
        c == copy_delegates(st, keys, 1, <<>>)
        lastKey(b) == CHOOSE i \in 1..Len(keys) :
                          /\ keys[i][1] = b
                          /\ \A j \in (i + 1)..Len(keys) : keys[j][1] # b
        lastOf == [b \in DOMAIN c.totals |-> st.delegates[keys[lastKey(b)]].shares] IN
    IF \E i \in 1..Len(keys) : st.delegates[keys[i]].tag # "old"
    THEN Return(Err("ParseErr"), NoBorrower, st)
    ELSE save_totals(c.storage, order, lastOf)

\* migrate: a value that is no OldDelegate passed over
migrate_skips_unparsable(st, order) ==
    LET keys == Ascending({k \in DOMAIN st.delegates : st.delegates[k].tag = "old"})
        c == copy_delegates(st, keys, 1, <<>>) IN
    save_totals(c.storage, SubSeq(order, 1, Cardinality(DOMAIN c.totals)), c.totals)

migrate(st, order) ==
    LET keys == old_range(st) IN
    IF \E i \in 1..Len(keys) : st.delegates[keys[i]].tag # "old"
    THEN Return(Err("ParseErr"), NoBorrower, st)
    ELSE LET c == copy_delegates(st, keys, 1, <<>>) IN
         save_totals(c.storage, order, c.totals)

\* the stores migrate runs on: legacy records under "delegates", borrowers
\* with whatever shares they held
StoredBorrower(a, c) == IF c = 0 THEN NoBorrower ELSE Borrower(a, MaxLimit, MaxShares + 1)
StoredLegacy(k, n) == IF n = 0 THEN NoEntry ELSE OldDelegate(Borrower(k[1], 0, 0), k[2], n)

InitMigrate ==
    /\ storage \in
         {[borrowers |-> [a \in Addr |-> StoredBorrower(a, c[a])],
           delegates |-> [k \in Addr \X Legacy |-> StoredLegacy(k, n[k])]] :
              c \in [Addr -> 0..1], n \in [Addr \X Legacy -> 0..MaxLegacyShares]}
    /\ last = [op |-> "none", addr |-> 0, delegate |-> 0, amount |-> 0,
               res |-> Ok(0), pre |-> storage, raw |-> storage, after |-> "none"]
    /\ calls = NoCalls

Migrate ==
    \E order \in Orders(Referenced(storage)) :
        Call("migrate", 0, 0, 0, migrate(storage, order))

NextMigrate == Migrate

SpecMigrate == InitMigrate /\ [][NextMigrate]_vars

\* the legacy share counts of a borrower in the store before the call, summed
RECURSIVE LegacySum(_, _)
LegacySum(b, d) ==
    IF d = 0 THEN 0
    ELSE (IF last.pre.delegates[<<b, d>>].tag = "old" THEN last.pre.delegates[<<b, d>>].shares ELSE 0)
         + LegacySum(b, d - 1)

InLegacy(b) == \E d \in Legacy : last.pre.delegates[<<b, d>>].tag = "old"

\* C13: after a successful migrate every legacy (borrower, delegate) record is
\* in the delegate table with the same share count, and every borrower with
\* a legacy record has shares equal to the sum of its legacy share counts,
\* whatever shares it held before.
Thm_C13_MigrateRebuildsTotals ==
    (last.op = "migrate" /\ last.res.tag = "Ok") =>
        /\ \A k \in Addr \X Legacy :
              last.pre.delegates[k].tag = "old" =>
                  storage.delegates[k] = DelegateEntry(last.pre.delegates[k].shares)
        /\ \A b \in Addr :
              InLegacy(b) =>
                  /\ storage.borrowers[b].tag = "some"
                  /\ storage.borrowers[b].shares = LegacySum(b, MaxLegacy)

Wit_C13_TwoRecordsSummed ==
    /\ last.op = "migrate"
    /\ last.res.tag = "Ok"
    /\ \E b \in Addr :
          /\ \A d \in Legacy : last.pre.delegates[<<b, d>>].tag = "old"
          /\ last.pre.borrowers[b].shares # LegacySum(b, MaxLegacy)
          /\ storage.borrowers[b].shares = LegacySum(b, MaxLegacy)

\* C14 (as claimed): a second migrate right after a successful one succeeds
\* and leaves the store as the first run left it.
Cex_C14_SecondMigrateSucceeds ==
    (last.op = "migrate" /\ last.after = "migrate") =>
        /\ last.res.tag = "Ok"
        /\ storage = last.pre

\* C14 (amended): a second migrate right after a successful one leaves the
\* store as the first run left it and writes nothing; it succeeds only when
\* the first run found no record, and otherwise fails on the first value
\* under "delegates", which no longer parses as a legacy record.
Thm_C14_SecondMigrateChangesNothing ==
    (last.op = "migrate" /\ last.after = "migrate") =>
        /\ storage = last.pre
        /\ last.raw = last.pre
        /\ (last.res.tag = "Ok") <=> (\A k \in Addr \X Legacy : last.pre.delegates[k].tag = "absent")
        /\ last.res.tag = "Err" => last.res.kind = "ParseErr"

Wit_C14_SecondMigrateRefused ==
    /\ last.op = "migrate"
    /\ last.after = "migrate"
    /\ last.res.kind = "ParseErr"
    /\ \E k \in Addr \X Legacy : storage.delegates[k].tag = "uint"
    /\ storage = last.pre

\* C15: a migrate over legacy records of which one names a borrower without a
\* record fails and retains nothing: the delegate table and every Borrower
\* record are as before the call, whatever the run had written by then.
Thm_C15_MigrateMissingBorrowerRollsBack ==
    (/\ last.op = "migrate"
     /\ \A k \in Addr \X Legacy : last.pre.delegates[k].tag \in {"old", "absent"}
     /\ \E b \in Addr : InLegacy(b) /\ last.pre.borrowers[b].tag = "absent") =>
        /\ last.res.tag = "Err"
        /\ last.res.kind = "NotFound"
        /\ storage = last.pre

Wit_C15_WrittenTotalsDiscarded ==
    /\ last.op = "migrate"
    /\ last.res.kind = "NotFound"
    /\ last.raw.delegates # last.pre.delegates
    /\ last.raw.borrowers # last.pre.borrowers
    /\ storage = last.pre

\* C20: a successful migrate changes no borrower's limit, creates and deletes
\* no Borrower record, and leaves the shares of every borrower without a
\* legacy record as they were.
Thm_C20_MigrateFrame ==
    (last.op = "migrate" /\ last.res.tag = "Ok") =>
        \A a \in Addr :
            /\ storage.borrowers[a].tag = last.pre.borrowers[a].tag
            /\ storage.borrowers[a].addr = last.pre.borrowers[a].addr
            /\ storage.borrowers[a].limit = last.pre.borrowers[a].limit
            /\ ~InLegacy(a) => storage.borrowers[a] = last.pre.borrowers[a]

Wit_C20_OtherBorrowerUntouched ==
    /\ last.op = "migrate"
    /\ last.res.tag = "Ok"
    /\ \E a, b \in Addr :
          /\ ~InLegacy(a)
          /\ storage.borrowers[a].tag = "some"
          /\ storage.borrowers[a].shares > 0
          /\ InLegacy(b)
          /\ last.pre.borrowers[b].shares # storage.borrowers[b].shares
          /\ storage.borrowers[b].limit > 0

\* ======================================================================
\* errors, conservation and frame of the ledger calls
\* ======================================================================
LedgerCalls == {"borrow", "repay", "delegate_borrow", "delegate_repay"}

\* C16: delegateRepay(b, d, s) on an existing borrower fails exactly when the
\* (b, d) pair has no entry, with the generic not-found error and the store
\* unchanged; an entry of zero does not fail and returns residual s.  A call
\* for an identity without a Borrower record fails in load with
\* UnauthorizedBorrower.
Thm_C16_NotFoundVersusUnauthorized ==
    /\ OnExisting("delegate_repay") =>
          /\ (last.res.tag = "Err") <=> (PreEntry.tag = "absent")
          /\ last.res.tag = "Err" =>
                /\ last.res = Err("NotFound")
                /\ last.raw = last.pre
                /\ storage = last.pre
          /\ PreEntry = DelegateEntry(0) => last.res = Ok(last.amount)
    /\ (last.op \in LedgerCalls /\ PreBorrower.tag = "absent") =>
          /\ last.res = UnauthorizedBorrower
          /\ load(last.pre, last.addr).res = UnauthorizedBorrower
          /\ storage = last.pre

Wit_C16_PairNeverBorrowed ==
    /\ OnExisting("delegate_repay")
    /\ PreEntry.tag = "absent"
    /\ last.res = Err("NotFound")
    /\ last.amount > 0
    /\ PreBorrower.shares > 0

\* C18 (as claimed): a successful delegateRepay(b, d, s) lowers b.shares by
\* the amount by which it lowers the (b, d) entry, and the residual is the
\* requested amount less what was deducted from the borrower.
Cex_C18_DelegateRepayConserves ==
    (OnExisting("delegate_repay") /\ last.res.tag = "Ok") =>
        /\ PreBorrower.shares - PostBorrower.shares = PreEntry.shares - PostEntry.shares
        /\ last.res.value = last.amount - (PreBorrower.shares - PostBorrower.shares)

\* C19: a ledger call on borrower b (with delegate d) changes no other
\* Borrower record, no other delegate entry and not b's limit; borrow and
\* repay change no delegate entry at all; set changes no shares and no
\* delegate entry.
Thm_C19_LedgerFrame ==
    last.op \in LedgerCalls \cup {"set"} =>
        /\ \A a \in Addr : a # last.addr => storage.borrowers[a] = last.pre.borrowers[a]
        /\ \A k \in DOMAIN storage.delegates :
              k # <<last.addr, last.delegate>> => storage.delegates[k] = last.pre.delegates[k]
        /\ last.op \in {"borrow", "repay", "set"} => storage.delegates = last.pre.delegates
        /\ last.op \in LedgerCalls =>
              /\ PostBorrower.tag = PreBorrower.tag
              /\ PostBorrower.addr = PreBorrower.addr
              /\ PostBorrower.limit = PreBorrower.limit
        /\ last.op = "set" => PostBorrower.shares = PreBorrower.shares

Wit_C19_OnlyOnePairMoved ==
    /\ last.op = "delegate_borrow"
    /\ last.res.tag = "Ok"
    /\ last.amount > 0
    /\ PostEntry # PreEntry
    /\ \E a \in Addr, d \in Delegate :
          /\ a # last.addr
          /\ storage.borrowers[a].shares > 0
          /\ storage.delegates[<<a, d>>].tag = "uint"
          /\ storage.delegates[<<a, d>>].shares # PostEntry.shares

\* ======================================================================
\* calls submitted at the same time
\* ======================================================================
\* A borrow is two steps of its caller: Borrower::load, then borrow or
\* delegate_borrow on the loaded record.  The host runs one external call at
\* a time, from entry to commit.

\* a host that starts a call while another is running
HostInterleaves == TRUE

\* the host starts a call only when no other call is running
HostSerializes == \A q \in Proc : calls[q].pc = "idle"

\* the call loads its borrower
Enter(p) ==
    /\ calls[p].pc = "idle"
    /\ HostSerializes
    /\ \E addr \in Addr, delegate \in {0} \cup Delegate, shares \in Amounts :
          /\ load(storage, addr).res.tag = "Ok"
          /\ calls' = [calls EXCEPT ![p] =
                 [pc |-> "loaded", op |-> IF delegate = 0 THEN "borrow" ELSE "delegate_borrow",
                  addr |-> addr, delegate |-> delegate, shares |-> shares,
                  self |-> load(storage, addr).v]]
    /\ UNCHANGED <<storage, last>>

\* the call runs borrow or delegate_borrow on the record it loaded and ends
Run(p) ==
    /\ calls[p].pc = "loaded"
    /\ LET c == calls[p]
           r == IF c.op = "borrow" THEN borrow(c.self, storage, c.shares)
                ELSE delegate_borrow(c.self, storage, c.delegate, c.shares) IN
       /\ storage' = Commit(storage, r)
       /\ last' = [op |-> c.op, addr |-> c.addr, delegate |-> c.delegate, amount |-> c.shares,
                   res |-> r.res, pre |-> storage, raw |-> r.storage, after |-> "none"]
    /\ calls' = [calls EXCEPT ![p] = IdleCall]

\* an administrator's set, an external call of one step
SetLimit ==
    /\ HostSerializes
    /\ \E addr \in Addr, limit \in Limits :
          /\ storage' = Commit(storage, set(storage, addr, limit))
          /\ last' = [op |-> "set", addr |-> addr, delegate |-> 0, amount |-> limit,
                      res |-> Ok(0), pre |-> storage, raw |-> storage', after |-> "none"]
    /\ UNCHANGED calls

NextSerial == SetLimit \/ (\E p \in Proc : Enter(p)) \/ (\E p \in Proc : Run(p))

SpecSerial == Init /\ [][NextSerial]_vars

\* C17: the record a borrow checks and writes is the stored one: while a call
\* holds a loaded record no other call has changed the record under it, and
\* a successful borrow or delegateBorrow leaves the stored shares raised by
\* its amount over the shares stored just before it, the limit as stored; so
\* no two calls commit against the same pre-call shares and no increment or
\* limit change is lost.
Thm_C17_BorrowOnCurrentRecord ==
    /\ \A p \in Proc :
          calls[p].pc = "loaded" => calls[p].self = storage.borrowers[calls[p].addr]
    /\ (last.op \in {"borrow", "delegate_borrow"} /\ last.res.tag = "Ok") =>
          /\ PostBorrower.shares = PreBorrower.shares + last.amount
          /\ PostBorrower.limit = PreBorrower.limit
          /\ ownership(PostBorrower.shares) <= PostBorrower.limit

Wit_C17_SecondBorrowSeesFirst ==
    /\ last.op \in {"borrow", "delegate_borrow"}
    /\ last.res.tag = "Ok"
    /\ last.amount > 0
    /\ PreBorrower.shares > 0
    /\ \E p \in Proc :
          /\ calls[p].pc = "loaded"
          /\ calls[p].addr = last.addr
          /\ calls[p].shares > 0
          /\ calls[p].self.shares = PostBorrower.shares

====
